---- MODULE Spec2Model ----
(***************************************************************************)
(* Model of extras/scripts/ochami-discovery-old2new.py: the converter of   *)
(* the old node discovery format ('nodes' with bmc_* fields) to the new    *)
(* one ('bmcs' + 'nodes').  The pipeline main() = read_input -> convert -> *)
(* write_output is a state machine; convert's for-loop is one step per     *)
(* entry of the input 'nodes' sequence.                                    *)
(*                                                                         *)
(* Python values are records [t, s, l]: t the type tag, s the characters   *)
(* of a str (or the decimal digits of an int), l the items of a list.  A   *)
(* str is a sequence of one-character strings.  A dict with a known set of *)
(* keys is a record over those keys in which Absent marks a key that is    *)
(* not in the dict.                                                        *)
(***************************************************************************)
EXTENDS Integers, Sequences, FiniteSets, TLC

VARIABLES in_format, out_format, HAVE_YAML, raw,
          pc, in_fmt, data, idx, bmc_xname, bmcs_by_key, node_records,
          converted, stdout, stderr, exit_code

vars == <<in_format, out_format, HAVE_YAML, raw,
          pc, in_fmt, data, idx, bmc_xname, bmcs_by_key, node_records,
          converted, stdout, stderr, exit_code>>

(***************************************************************************)
(* Bounds of the checked inputs.                                           *)
(***************************************************************************)
MaxNodes == 3
MaxXnameLen == 3
MaxFqdnLen == 2
MaxGroupLen == 2

(***************************************************************************)
(* Python values.                                                          *)
(***************************************************************************)
Absent == [t |-> "absent", s |-> <<>>, l |-> <<>>]
None == [t |-> "none", s |-> <<>>, l |-> <<>>]
Str(s) == [t |-> "str", s |-> s, l |-> <<>>]
PyInt(digits) == [t |-> "int", s |-> digits, l |-> <<>>]
List(l) == [t |-> "list", s |-> <<>>, l |-> l]
\* a YAML timestamp scalar: yaml.safe_load gives a datetime.date, which
\* json has no encoding for
Date == [t |-> "date", s |-> <<>>, l |-> <<>>]

\* bool(v): None, "", 0 and [] are false
Truthy(v) ==
    IF v.t = "none" \/ v.t = "absent" THEN FALSE
    ELSE IF v.t = "str" THEN v.s # <<>>
    ELSE IF v.t = "int" THEN v.s # <<"0">>
    ELSE IF v.t = "list" THEN v.l # <<>>
    ELSE TRUE

\* dict.get(key): None when the key is not in the dict
Get(v) == IF v = Absent THEN None ELSE v

\* str(x) of a str or an int
PyStr(x) == Str(x.s)

\* code points of the characters used
Ord == [c \in {"\n", ".", "0", "1", "2", "A", "B", "a", "b", "d", "k", "m", "n", "x", "z"} |->
          CASE c = "\n" -> 10 [] c = "." -> 46 [] c = "0" -> 48 [] c = "1" -> 49
            [] c = "2" -> 50 [] c = "A" -> 65 [] c = "B" -> 66 [] c = "a" -> 97
            [] c = "b" -> 98 [] c = "d" -> 100 [] c = "k" -> 107 [] c = "m" -> 109
            [] c = "n" -> 110 [] c = "x" -> 120 [] c = "z" -> 122]

IsDigit(c) == c \in {"0", "1", "2"}

\* a < b on str: the first differing character decides, a proper prefix is less
RECURSIVE StrLess(_, _)
StrLess(a, b) ==
    IF b = <<>> THEN FALSE
    ELSE IF a = <<>> THEN TRUE
    ELSE IF Head(a) # Head(b) THEN Ord[Head(a)] < Ord[Head(b)]
    ELSE StrLess(Tail(a), Tail(b))

\* a < b on tuples of str
RECURSIVE TupleLess(_, _)
TupleLess(a, b) ==
    IF b = <<>> THEN FALSE
    ELSE IF a = <<>> THEN TRUE
    ELSE IF Head(a) # Head(b) THEN StrLess(Head(a), Head(b))
    ELSE TupleLess(Tail(a), Tail(b))

(***************************************************************************)
(* _derive_bmc_xname                                                       *)
(***************************************************************************)
\* the pattern n\d+.*$ matches at position i: 'n', a digit, then characters
\* other than newline up to the end of the string or to a final newline
MatchesAt(s, i) ==
    /\ i + 1 <= Len(s)
    /\ s[i] = "n"
    /\ IsDigit(s[i + 1])
    /\ \A j \in (i + 2)..(Len(s) - 1) : s[j] # "\n"

\* re.sub(r"n\d+.*$", "", s): the leftmost match is removed; it leaves at
\* most a final newline, in which nothing matches again
ReSub(s) ==
    IF \E i \in 1..Len(s) : MatchesAt(s, i)
    THEN LET i == CHOOSE k \in 1..Len(s) :
                    MatchesAt(s, k) /\ \A m \in 1..(k - 1) : ~MatchesAt(s, m)
         IN SubSeq(s, 1, i - 1) \o
            (IF s[Len(s)] = "\n" /\ Len(s) > i + 1 THEN <<"\n">> ELSE <<>>)
    ELSE s

\* s.split(".", 1)[0]
FirstLabel(s) ==
    IF \E i \in 1..Len(s) : s[i] = "."
    THEN LET i == CHOOSE k \in 1..Len(s) :
                    s[k] = "." /\ \A m \in 1..(k - 1) : s[m] # "."
         IN SubSeq(s, 1, i - 1)
    ELSE s

_derive_bmc_xname(node_xname, bmc_fqdn, bmc_xname_arg) ==
    IF Truthy(bmc_xname_arg) THEN bmc_xname_arg
    ELSE IF Truthy(node_xname) THEN Str(ReSub(node_xname.s))
    ELSE IF Truthy(bmc_fqdn) THEN Str(FirstLabel(bmc_fqdn.s))
    ELSE None

(***************************************************************************)
(* normalize_groups_inplace                                                *)
(***************************************************************************)
\* [str(x) for x in g if x]
RECURSIVE StrItems(_)
StrItems(l) ==
    IF l = <<>> THEN <<>>
    ELSE IF Truthy(Head(l)) THEN <<PyStr(Head(l))>> \o StrItems(Tail(l))
    ELSE StrItems(Tail(l))

\* the seen/deduped loop: x is kept when no earlier item equals it
RECURSIVE Dedup(_, _)
Dedup(l, seen) ==
    IF l = <<>> THEN <<>>
    ELSE IF Head(l) \in seen THEN Dedup(Tail(l), seen)
    ELSE <<Head(l)>> \o Dedup(Tail(l), seen \cup {Head(l)})

\* what the 'group' value appends to groups
FromGroup(g) ==
    IF g.t = "str" /\ g.s # <<>> THEN <<g>>
    ELSE IF g.t = "list" THEN StrItems(g.l)
    ELSE <<>>

\* what the 'groups' value appends to groups
FromGroups(g) ==
    IF g.t = "str" THEN <<g>>
    ELSE IF g.t = "list" THEN StrItems(g.l)
    ELSE <<>>

\* groups or None
OrNone(l) == IF l = <<>> THEN None ELSE List(l)

normalize_groups_inplace(node) ==
    LET hasGroup == node.group # Absent /\ node.group # None
        groups1 == IF hasGroup THEN FromGroup(node.group) ELSE <<>>
        node1 == IF hasGroup THEN [node EXCEPT !.group = Absent] ELSE node
    IN IF node1.groups # Absent /\ node1.groups # None
       THEN [node1 EXCEPT !.groups = OrNone(Dedup(groups1 \o FromGroups(node1.groups), {}))]
       ELSE [node1 EXCEPT !.groups = OrNone(groups1)]

(***************************************************************************)
(* convert: the body of the for-loop                                       *)
(***************************************************************************)
BMC_FIELDS == {"bmc_mac", "bmc_ip", "bmc_fqdn", "bmc_xname"}

\* isinstance(raw_node, dict)
IsDict(v) == v.t = "dict"

\* node_records.append(node)
AppendNodeMutant(records, node) == <<node>> \o records
AppendNode(records, node) == Append(records, node)

\* bmc_vals = {fld: node.pop(fld, None) for fld in BMC_FIELDS}
BmcVals(node) == [fld \in BMC_FIELDS |-> Get(node[fld])]

\* the node after the four pops
PopBmcFields(node) ==
    [node EXCEPT !.bmc_mac = Absent, !.bmc_ip = Absent,
                 !.bmc_fqdn = Absent, !.bmc_xname = Absent]

\* the {} that bmcs_by_key.get(key, {}) gives for a new key
EmptyRec == [xname |-> Absent, mac |-> Absent, ip |-> Absent, fqdn |-> Absent]

\* the aggregation key of a node
KeyOf(xn, bmc_vals) ==
    IF Truthy(xn) THEN <<"xname", xn>>
    ELSE <<"triplet", bmc_vals["bmc_mac"], bmc_vals["bmc_ip"], bmc_vals["bmc_fqdn"]>>

\* position of key in the dict bmcs_by_key (kept in insertion order), 0 if none
KeyIndex(by_key, key) ==
    IF \E i \in 1..Len(by_key) : by_key[i].key = key
    THEN CHOOSE i \in 1..Len(by_key) : by_key[i].key = key
    ELSE 0

\* bmcs_by_key.get(key, {})
GetRec(by_key, key) ==
    IF KeyIndex(by_key, key) = 0 THEN EmptyRec ELSE by_key[KeyIndex(by_key, key)].rec

\* bmcs_by_key[key] = rec: an existing key keeps its position
SetRec(by_key, key, rec) ==
    IF KeyIndex(by_key, key) = 0
    THEN Append(by_key, [key |-> key, rec |-> rec])
    ELSE [by_key EXCEPT ![KeyIndex(by_key, key)] = [key |-> key, rec |-> rec]]

\* "Merge what we know": a field is set when the node knows it and the
\* record does not
MergeMutant(rec, xn, bmc_vals) ==
    [xname |-> IF Truthy(xn) /\ ~Truthy(Get(rec.xname)) THEN xn ELSE rec.xname,
     mac |-> IF Truthy(bmc_vals["bmc_mac"]) THEN bmc_vals["bmc_mac"] ELSE rec.mac,
     ip |-> IF Truthy(bmc_vals["bmc_ip"]) /\ ~Truthy(Get(rec.ip))
            THEN bmc_vals["bmc_ip"] ELSE rec.ip,
     fqdn |-> IF Truthy(bmc_vals["bmc_fqdn"]) /\ ~Truthy(Get(rec.fqdn))
              THEN bmc_vals["bmc_fqdn"] ELSE rec.fqdn]
Merge(rec, xn, bmc_vals) ==
    [xname |-> IF Truthy(xn) /\ ~Truthy(Get(rec.xname)) THEN xn ELSE rec.xname,
     mac |-> IF Truthy(bmc_vals["bmc_mac"]) /\ ~Truthy(Get(rec.mac))
             THEN bmc_vals["bmc_mac"] ELSE rec.mac,
     ip |-> IF Truthy(bmc_vals["bmc_ip"]) /\ ~Truthy(Get(rec.ip))
            THEN bmc_vals["bmc_ip"] ELSE rec.ip,
     fqdn |-> IF Truthy(bmc_vals["bmc_fqdn"]) /\ ~Truthy(Get(rec.fqdn))
              THEN bmc_vals["bmc_fqdn"] ELSE rec.fqdn]

\* the BMC identifier convert derives for a node (after the pops and the
\* group normalisation, which leave 'xname' alone)
DeriveFor(raw_node) ==
    _derive_bmc_xname(Get(raw_node.xname), BmcVals(raw_node)["bmc_fqdn"],
                      BmcVals(raw_node)["bmc_xname"])

\* any(v for v in bmc_vals.values())
HasAnyBmcInfo(bmc_vals) == \E fld \in BMC_FIELDS : Truthy(bmc_vals[fld])

\* the node appended to node_records
ProcessNode(raw_node) ==
    LET node == normalize_groups_inplace(PopBmcFields(raw_node))
        xn == DeriveFor(raw_node)
    IN IF (HasAnyBmcInfo(BmcVals(raw_node)) \/ Truthy(xn)) /\ Truthy(xn)
       THEN [node EXCEPT !.bmc = xn]
       ELSE node

\* bmcs_by_key after the node
Aggregate(by_key, raw_node) ==
    LET bmc_vals == BmcVals(raw_node)
        xn == DeriveFor(raw_node)
        key == KeyOf(xn, bmc_vals)
    IN IF HasAnyBmcInfo(bmc_vals) \/ Truthy(xn)
       THEN SetRec(by_key, key, Merge(GetRec(by_key, key), xn, bmc_vals))
       ELSE by_key

(***************************************************************************)
(* convert: the bmcs list                                                  *)
(***************************************************************************)
\* v or ""
OrEmpty(v) == IF Truthy(Get(v)) THEN v.s ELSE <<>>

sort_key_mutant(item) ==
    IF item.rec.xname # Absent /\ Truthy(item.rec.xname)
    THEN <<<<"0">>, item.rec.xname.s>>
    ELSE <<<<"1">>, OrEmpty(item.rec.mac), OrEmpty(item.rec.ip), OrEmpty(item.rec.fqdn)>>
sort_key(item) ==
    IF item.rec.xname # Absent /\ Truthy(item.rec.xname)
    THEN <<<<"0">>, item.rec.xname.s>>
    ELSE <<<<"1">>, OrEmpty(item.rec.ip), OrEmpty(item.rec.mac), OrEmpty(item.rec.fqdn)>>

\* item put behind every item whose key is not greater than its own
RECURSIVE InsertSorted(_, _)
InsertSorted(items, item) ==
    IF items = <<>> THEN <<item>>
    ELSE IF TupleLess(sort_key(item), sort_key(Head(items)))
         THEN <<item>> \o items
         ELSE <<Head(items)>> \o InsertSorted(Tail(items), item)

\* sorted(bmcs_by_key.items(), key=sort_key): stable
RECURSIVE Sorted(_)
Sorted(items) ==
    IF items = <<>> THEN <<>>
    ELSE InsertSorted(Sorted(SubSeq(items, 1, Len(items) - 1)), items[Len(items)])

\* out: the keys of rec whose value is not None
OutRec(rec) ==
    [xname |-> IF Get(rec.xname) # None THEN rec.xname ELSE Absent,
     mac |-> IF Get(rec.mac) # None THEN rec.mac ELSE Absent,
     ip |-> IF Get(rec.ip) # None THEN rec.ip ELSE Absent,
     fqdn |-> IF Get(rec.fqdn) # None THEN rec.fqdn ELSE Absent]

BmcsList(by_key) ==
    LET items == Sorted(by_key)
    IN [i \in 1..Len(items) |-> OutRec(items[i].rec)]

(***************************************************************************)
(* Documents and the text on standard input                                *)
(***************************************************************************)
\* the value of data.get("nodes"): a list, a value of another type, or None
\* when the key is missing
NodesList(l) == [t |-> "list", l |-> l]
NodesStr == [t |-> "str", l |-> <<>>]
NodesMissing == [t |-> "none", l |-> <<>>]

\* the parsed document: a mapping, or a value of another type
TopDict(nodes) == [t |-> "dict", nodes |-> nodes]
TopList == [t |-> "list", nodes |-> NodesMissing]
NoData == [t |-> "unset", nodes |-> NodesMissing]

\* the text on stdin, as what json.loads and yaml.safe_load make of it
ParseOk(doc) == [ok |-> TRUE, doc |-> doc]
ParseFails == [ok |-> FALSE, doc |-> NoData]
JsonText(doc) == [json |-> ParseOk(doc), yaml |-> ParseOk(doc)]
YamlText(doc) == [json |-> ParseFails, yaml |-> ParseOk(doc)]
Garbage == [json |-> ParseFails, yaml |-> ParseFails]

\* a value json.dump has no encoding for
JsonEncodable(v) == v.t # "date"
NodeEncodable(node) == IsDict(node) => JsonEncodable(node.extra)

(***************************************************************************)
(* read_input                                                              *)
(***************************************************************************)
ReadOk(fmt, doc) == [ok |-> TRUE, fmt |-> fmt, doc |-> doc, err |-> "", code |-> 0]
ReadExit(msg) == [ok |-> FALSE, fmt |-> "", doc |-> NoData, err |-> msg, code |-> 2]

read_input(fmt_hint) ==
    IF fmt_hint = "json"
    THEN IF raw.json.ok THEN ReadOk("json", raw.json.doc)
         ELSE ReadExit("Failed to parse input as JSON")
    ELSE IF fmt_hint = "yaml"
    THEN IF ~HAVE_YAML
         THEN ReadExit("YAML parsing requested but PyYAML is not installed.")
         ELSE IF raw.yaml.ok THEN ReadOk("yaml", raw.yaml.doc)
         ELSE ReadExit("Failed to parse input as YAML")
    ELSE IF raw.json.ok THEN ReadOk("json", raw.json.doc)
    ELSE IF ~HAVE_YAML
         THEN ReadExit("Input does not appear to be JSON and PyYAML is not installed.")
         ELSE IF raw.yaml.ok THEN ReadOk("yaml", raw.yaml.doc)
         ELSE ReadExit("Failed to parse input as YAML")

NoOutput == [started |-> FALSE, bmcs |-> <<>>, nodes |-> <<>>, complete |-> FALSE]
NoDocument == [bmcs |-> <<>>, nodes |-> <<>>]

\* main: in_fmt, data = read_input(args.in_format)
ReadInput ==
    /\ pc = "read"
    /\ LET r == read_input(in_format)
       IN IF r.ok
          THEN /\ in_fmt' = r.fmt
               /\ data' = r.doc
               /\ pc' = "convert"
               /\ UNCHANGED <<stderr, exit_code>>
          ELSE /\ stderr' = Append(stderr, r.err)
               /\ exit_code' = r.code
               /\ pc' = "exit"
               /\ UNCHANGED <<in_fmt, data>>
    /\ UNCHANGED <<in_format, out_format, HAVE_YAML, raw, idx, bmc_xname,
                   bmcs_by_key, node_records, converted, stdout>>

(***************************************************************************)
(* convert                                                                 *)
(***************************************************************************)
\* the status of a process ended by raise SystemExit("message"): Python
\* prints the message on stderr and exits with status 1
SystemExitStrStatus == 1

\* the two shape checks, then bmcs_by_key = {} and node_records = []
ConvertBegin ==
    /\ pc = "convert"
    /\ IF data.t # "dict"
       THEN /\ stderr' = Append(stderr, "Top-level document must be a mapping/dict containing 'nodes'.")
            /\ exit_code' = SystemExitStrStatus
            /\ pc' = "exit"
            /\ UNCHANGED <<idx, bmcs_by_key, node_records>>
       ELSE IF data.nodes.t # "list"
       THEN /\ stderr' = Append(stderr, "Input must contain a top-level 'nodes' array.")
            /\ exit_code' = SystemExitStrStatus
            /\ pc' = "exit"
            /\ UNCHANGED <<idx, bmcs_by_key, node_records>>
       ELSE /\ idx' = 0
            /\ bmcs_by_key' = <<>>
            /\ node_records' = <<>>
            /\ pc' = "loop"
            /\ UNCHANGED <<stderr, exit_code>>
    /\ UNCHANGED <<in_format, out_format, HAVE_YAML, raw, in_fmt, data,
                   bmc_xname, converted, stdout>>

\* one iteration of "for raw_node in nodes"
ConvertNode ==
    /\ pc = "loop"
    /\ idx < Len(data.nodes.l)
    /\ LET raw_node == data.nodes.l[idx + 1]
       IN IF ~IsDict(raw_node)
          THEN UNCHANGED <<bmc_xname, bmcs_by_key, node_records>>
          ELSE /\ bmc_xname' = DeriveFor(raw_node)
               /\ bmcs_by_key' = Aggregate(bmcs_by_key, raw_node)
               /\ node_records' = AppendNode(node_records, ProcessNode(raw_node))
    /\ idx' = idx + 1
    /\ UNCHANGED <<in_format, out_format, HAVE_YAML, raw, pc, in_fmt, data,
                   converted, stdout, stderr, exit_code>>

\* after the loop: the sorted bmcs list and the returned document
ConvertReturn ==
    /\ pc = "loop"
    /\ idx = Len(data.nodes.l)
    /\ converted' = [bmcs |-> BmcsList(bmcs_by_key), nodes |-> node_records]
    /\ pc' = "write"
    /\ UNCHANGED <<in_format, out_format, HAVE_YAML, raw, in_fmt, data, idx,
                   bmc_xname, bmcs_by_key, node_records, stdout, stderr, exit_code>>

(***************************************************************************)
(* write_output                                                            *)
(***************************************************************************)
\* the status of a process ended by an uncaught exception
UncaughtStatus == 1

\* the nodes json.dump has written when it reaches a value it cannot encode
RECURSIVE EncodablePrefix(_)
EncodablePrefix(nodes) ==
    IF nodes = <<>> \/ ~NodeEncodable(Head(nodes)) THEN <<>>
    ELSE <<Head(nodes)>> \o EncodablePrefix(Tail(nodes))

\* main: out_fmt resolved, then write_output(out_fmt, converted)
WriteOutput ==
    /\ pc = "write"
    /\ LET out_fmt == IF out_format = "match" THEN in_fmt ELSE out_format
       IN IF out_fmt = "json"
          THEN IF \A i \in 1..Len(converted.nodes) : NodeEncodable(converted.nodes[i])
               THEN /\ stdout' = [started |-> TRUE, bmcs |-> converted.bmcs,
                                  nodes |-> converted.nodes, complete |-> TRUE]
                    /\ exit_code' = 0
                    /\ UNCHANGED stderr
               ELSE /\ stdout' = [started |-> TRUE, bmcs |-> converted.bmcs,
                                  nodes |-> EncodablePrefix(converted.nodes),
                                  complete |-> FALSE]
                    /\ stderr' = Append(stderr, "TypeError: Object of type date is not JSON serializable")
                    /\ exit_code' = UncaughtStatus
          ELSE IF ~HAVE_YAML
               THEN /\ stderr' = Append(stderr, "YAML output requested but PyYAML not available.")
                    /\ exit_code' = 2
                    /\ UNCHANGED stdout
               ELSE /\ stdout' = [started |-> TRUE, bmcs |-> converted.bmcs,
                                  nodes |-> converted.nodes, complete |-> TRUE]
                    /\ exit_code' = 0
                    /\ UNCHANGED stderr
    /\ pc' = "exit"
    /\ UNCHANGED <<in_format, out_format, HAVE_YAML, raw, in_fmt, data, idx,
                   bmc_xname, bmcs_by_key, node_records, converted>>

Next == ReadInput \/ ConvertBegin \/ ConvertNode \/ ConvertReturn \/ WriteOutput

(***************************************************************************)
(* Inputs                                                                  *)
(***************************************************************************)
SeqsUpTo(S, n) == UNION {[1..k -> S] : k \in 0..n}

\* the strings over an alphabet
StrsUpTo(alphabet, n) == {Str(s) : s \in SeqsUpTo(alphabet, n)}

\* a node mapping; Absent for the keys it does not have
Node(xname, mac, ip, fqdn, bxn, group, groups, bmc, extra) ==
    [t |-> "dict", xname |-> xname, bmc_mac |-> mac, bmc_ip |-> ip,
     bmc_fqdn |-> fqdn, bmc_xname |-> bxn, group |-> group, groups |-> groups,
     bmc |-> bmc, extra |-> extra]

\* an entry of 'nodes' that is not a mapping
NotAMapping == Str(<<"x">>)

\* the command lines and runtimes: -i, -o, HAVE_YAML
AllEnvs == {"auto", "json", "yaml"} \X {"match", "json", "yaml"} \X BOOLEAN
DefaultEnv == {<<"auto", "match", TRUE>>}

\* the documents with a 'nodes' list of up to MaxNodes entries of S
DocsOver(S) == {TopDict(NodesList(l)) : l \in SeqsUpTo(S, MaxNodes)}

DocEncodable(doc) == \A i \in 1..Len(doc.nodes.l) : NodeEncodable(doc.nodes.l[i])

\* the texts that parse to the documents: a JSON text never gives a date
TextsOf(docs) ==
    {JsonText(d) : d \in {x \in docs : DocEncodable(x)}} \cup {YamlText(d) : d \in docs}

InitWith(envs, raws) ==
    /\ \E e \in envs :
         /\ in_format = e[1]
         /\ out_format = e[2]
         /\ HAVE_YAML = e[3]
    /\ raw \in raws
    /\ pc = "read"
    /\ in_fmt = ""
    /\ data = NoData
    /\ idx = 0
    /\ bmc_xname = None
    /\ bmcs_by_key = <<>>
    /\ node_records = <<>>
    /\ converted = NoDocument
    /\ stdout = NoOutput
    /\ stderr = <<>>
    /\ exit_code = 0

\* the whole pipeline: every command line, with and without PyYAML, on
\* texts that do not parse, documents of the wrong shape and small documents
MainNodes ==
    {Node(Str(<<"a", "n", "0">>), Str(<<"m">>), Absent, Absent, Absent,
          Str(<<"A">>), Absent, Absent, Absent),
     Node(Str(<<"b">>), Absent, Absent, Absent, Absent, Absent, Absent, Absent, Date),
     NotAMapping}
MainDocs == {TopList, TopDict(NodesMissing), TopDict(NodesStr)} \cup DocsOver(MainNodes)
Init == InitWith(AllEnvs, {Garbage} \cup TextsOf(MainDocs))
Spec == Init /\ [][Next]_vars

\* identifier derivation: one node, every xname of up to MaxXnameLen
\* characters, every bmc_fqdn of up to MaxFqdnLen, bmc_xname missing, null,
\* empty or set
DeriveNodes ==
    {Node(x, Absent, Absent, f, b, Absent, Absent, Absent, Absent) :
        x \in {Absent, None} \cup StrsUpTo({"x", "n", "0", "\n"}, MaxXnameLen),
        f \in {Absent} \cup StrsUpTo({"b", "."}, MaxFqdnLen),
        b \in {Absent, None, Str(<<>>), Str(<<"z">>)}}
InitDerive ==
    InitWith(DefaultEnv, {JsonText(TopDict(NodesList(<<n>>))) : n \in DeriveNodes})
SpecDerive == InitDerive /\ [][Next]_vars

\* group normalisation: one node, 'group' and 'groups' missing, null, a
\* string, a number or a list of up to MaxGroupLen items
GroupItems == {Str(<<"A">>), Str(<<"B">>), Str(<<>>), Str(<<"1">>), PyInt(<<"1">>)}
GroupValues ==
    {Absent, None, Str(<<>>), Str(<<"A">>), PyInt(<<"1">>)}
        \cup {List(l) : l \in SeqsUpTo(GroupItems, MaxGroupLen)}
GroupNodes ==
    {Node(Absent, m, Absent, Absent, Absent, g, gs, Absent, Absent) :
        m \in {Absent, None, Str(<<"m">>)}, g \in GroupValues, gs \in GroupValues}
InitGroups ==
    InitWith(DefaultEnv, {JsonText(TopDict(NodesList(<<n>>))) : n \in GroupNodes})
SpecGroups == InitGroups /\ [][Next]_vars

\* aggregation: up to MaxNodes entries; nodes an0 and an1 share the BMC "a",
\* with different, empty and missing contact fields; nodes without an
\* identifier, with and without contact fields; a node that carries a 'bmc'
\* key of its own; an entry that is not a mapping
AggNodes ==
    {Node(Str(<<"a", "n", "0">>), Str(<<"m">>), Absent, Absent, Absent,
          Absent, Absent, Absent, Absent),
     Node(Str(<<"a", "n", "0">>), Absent, Absent, Absent, Absent,
          Absent, Absent, Absent, Absent),
     Node(Str(<<"a", "n", "1">>), Str(<<"k">>), Absent, Absent, Absent,
          Absent, Absent, Absent, Absent),
     Node(Str(<<"a", "n", "1">>), Absent, Str(<<"1">>), Str(<<"d">>), Absent,
          Absent, Absent, Absent, Absent),
     Node(Str(<<"a", "n", "0">>), None, Str(<<"2">>), Str(<<"a", ".", "d">>), Absent,
          Absent, Absent, Absent, Absent),
     Node(Absent, Str(<<>>), Absent, Absent, Str(<<"a">>), Absent, Absent, Absent, Absent),
     Node(Absent, Absent, Absent, Str(<<"b", ".", "d">>), Absent,
          Absent, Absent, Absent, Absent),
     Node(Absent, Absent, Absent, Absent, Absent, Absent, Absent, Absent, Absent),
     Node(Absent, Str(<<"m">>), Absent, Absent, Absent, Absent, Absent, Absent, Absent),
     Node(Absent, Absent, Absent, Absent, Absent, Absent, Absent, Str(<<"z">>), Absent),
     Node(Str(<<"n", "0">>), Absent, Str(<<"1">>), Absent, Absent,
          Absent, Absent, Str(<<"z">>), Absent),
     NotAMapping}
InitAgg == InitWith(DefaultEnv, {JsonText(d) : d \in DocsOver(AggNodes)})
SpecAgg == InitAgg /\ [][Next]_vars

\* the order of bmcs: up to MaxNodes nodes; BMCs named "a", "B" and "ab",
\* and BMCs without an identifier (the xname n0 trims to nothing) with
\* different ip, mac and fqdn
SortNodes ==
    {Node(Absent, Absent, Absent, Absent, b, Absent, Absent, Absent, Absent) :
        b \in {Str(<<"a">>), Str(<<"B">>), Str(<<"a", "b">>)}}
    \cup
    {Node(Str(<<"n", "0">>), m, i, f, Absent, Absent, Absent, Absent, Absent) :
        m \in {Str(<<"k">>), Str(<<"m">>)},
        i \in {Absent, Str(<<"1">>), Str(<<"2">>)},
        f \in {Absent, Str(<<"d">>)}}
InitSort == InitWith(DefaultEnv, {JsonText(d) : d \in DocsOver(SortNodes)})
SpecSort == InitSort /\ [][Next]_vars

(***************************************************************************)
(* Properties                                                              *)
(***************************************************************************)
\* the entries of the input 'nodes' sequence, once convert has accepted it
InputNodes == data.nodes.l

\* the positions of the mapping entries among the first n entries, and the
\* position of the k-th of them
MappingPositions(n) == {i \in 1..n : IsDict(InputNodes[i])}
KthMapping(k) ==
    CHOOSE i \in 1..Len(InputNodes) :
        IsDict(InputNodes[i]) /\ Cardinality(MappingPositions(i)) = k

\* convert has returned its document
Converted == pc = "write"

\* the BMC records of the output that carry the identifier id
RecordsNamed(bmcs, id) == {i \in 1..Len(bmcs) : bmcs[i].xname = id}

\* C1: every output node that has a 'bmc' field names the xname of some
\* record of the output 'bmcs'.
C1_BmcReferencesRecord ==
    Converted =>
        \A k \in 1..Len(converted.nodes) :
            converted.nodes[k].bmc # Absent =>
                RecordsNamed(converted.bmcs, converted.nodes[k].bmc) # {}

\* the accumulated group names of a node: those of 'group', then those of
\* 'groups'
Accumulated(node) ==
    (IF node.group # Absent /\ node.group # None THEN FromGroup(node.group) ELSE <<>>)
        \o (IF node.groups # Absent /\ node.groups # None
            THEN FromGroups(node.groups) ELSE <<>>)

\* the first occurrences among the first n items of l, in order
RECURSIVE FirstOccurrences(_, _)
FirstOccurrences(l, n) ==
    IF n = 0 THEN <<>>
    ELSE FirstOccurrences(l, n - 1)
            \o (IF \E j \in 1..(n - 1) : l[j] = l[n] THEN <<>> ELSE <<l[n]>>)

\* C2: 'groups' of an output node, when a list, has no duplicates and is
\* the accumulated sequence ('group' first, then 'groups') reduced to its
\* first occurrences.
C2_GroupsDeduplicated ==
    Converted =>
        \A k \in 1..Len(converted.nodes) :
            LET g == converted.nodes[k].groups
                acc == Accumulated(InputNodes[KthMapping(k)])
            IN g.t = "list" =>
                /\ \A i, j \in 1..Len(g.l) : i # j => g.l[i] # g.l[j]
                /\ g.l = FirstOccurrences(acc, Len(acc))

\* the three candidates of the identifier and the first non-empty of them
CandidateA(node) == Get(node.bmc_xname)
CandidateB(node) ==
    IF Get(node.xname).t = "str" THEN Str(ReSub(node.xname.s)) ELSE None
CandidateC(node) ==
    IF Get(node.bmc_fqdn).t = "str" THEN Str(FirstLabel(node.bmc_fqdn.s)) ELSE None
FirstNonEmpty(node) ==
    IF Truthy(CandidateA(node)) THEN CandidateA(node)
    ELSE IF Truthy(CandidateB(node)) THEN CandidateB(node)
    ELSE IF Truthy(CandidateC(node)) THEN CandidateC(node)
    ELSE None

\* C3: the identifier derived for a node is the first non-empty candidate
\* among bmc_xname, the trimmed xname and the leftmost label of bmc_fqdn;
\* it is empty only when all three are, and null only then.
C3_FirstNonEmptyCandidate ==
    (pc = "loop" /\ idx >= 1 /\ IsDict(InputNodes[idx])) =>
        LET want == FirstNonEmpty(InputNodes[idx])
        IN IF Truthy(want) THEN bmc_xname = want ELSE ~Truthy(bmc_xname)

\* the failures of a finished run
ReadFailed == pc = "exit" /\ data = NoData
SchemaViolated ==
    pc = "exit" /\ data # NoData /\ (data.t # "dict" \/ data.nodes.t # "list")
YamlOutputMissing ==
    /\ pc = "exit" /\ data.t = "dict" /\ data.nodes.t = "list"
    /\ (IF out_format = "match" THEN in_fmt ELSE out_format) = "yaml"
    /\ ~HAVE_YAML
Succeeded == pc = "exit" /\ stdout.complete

\* C4: the exit code is 0 when the run succeeds and 2 on a parse failure,
\* a missing YAML capability and a schema violation.
C4_ExitCodes ==
    /\ Succeeded => exit_code = 0
    /\ (ReadFailed \/ SchemaViolated \/ YamlOutputMissing) => exit_code = 2

\* C5: no output node has any of the keys bmc_mac, bmc_ip, bmc_fqdn,
\* bmc_xname and group.
C5_OldKeysRemoved ==
    Converted =>
        \A k \in 1..Len(converted.nodes) :
            /\ \A fld \in BMC_FIELDS : converted.nodes[k][fld] = Absent
            /\ converted.nodes[k].group = Absent

\* the identifiers derived for the mapping entries among the first n
IdsDerived(n) ==
    {DeriveFor(InputNodes[i]) : i \in {j \in MappingPositions(n) : Truthy(DeriveFor(InputNodes[j]))}}

\* the mapping entries among the first n that share the identifier id and
\* have a non-empty value for the field
Suppliers(n, id, fld) ==
    {i \in MappingPositions(n) :
        DeriveFor(InputNodes[i]) = id /\ Truthy(BmcVals(InputNodes[i])[fld])}

\* the value of the field that the first of them supplies, if any does
FirstKnown(n, id, fld) ==
    IF Suppliers(n, id, fld) = {} THEN Absent
    ELSE LET first == CHOOSE i \in Suppliers(n, id, fld) :
                          \A j \in Suppliers(n, id, fld) : i <= j
         IN BmcVals(InputNodes[first])[fld]

\* rec is the union of the first-known values of the BMC id over the first
\* n entries
IsFirstKnownUnion(rec, n, id) ==
    /\ rec.xname = id
    /\ rec.mac = FirstKnown(n, id, "bmc_mac")
    /\ rec.ip = FirstKnown(n, id, "bmc_ip")
    /\ rec.fqdn = FirstKnown(n, id, "bmc_fqdn")

\* C6: there is exactly one BMC record per distinct derived identifier,
\* and each of its fields is the value of the first node sharing the
\* identifier that has a non-empty value for it: after every node of the
\* loop for the nodes seen so far, and in the output 'bmcs' for all nodes.
C6_FirstWriterWins ==
    /\ pc = "loop" =>
          \A id \in IdsDerived(idx) :
              /\ Cardinality({i \in 1..Len(bmcs_by_key) : bmcs_by_key[i].key = <<"xname", id>>}) = 1
              /\ \A i \in 1..Len(bmcs_by_key) :
                    bmcs_by_key[i].key = <<"xname", id>> =>
                        IsFirstKnownUnion(bmcs_by_key[i].rec, idx, id)
    /\ Converted =>
          /\ \A id \in IdsDerived(Len(InputNodes)) :
                /\ Cardinality(RecordsNamed(converted.bmcs, id)) = 1
                /\ \A i \in RecordsNamed(converted.bmcs, id) :
                      IsFirstKnownUnion(converted.bmcs[i], Len(InputNodes), id)
          /\ \A i \in 1..Len(converted.bmcs) :
                converted.bmcs[i].xname # Absent =>
                    converted.bmcs[i].xname \in IdsDerived(Len(InputNodes))

\* C6 witness: convert has returned for an input in which two nodes share
\* an identifier and give different non-empty values for the mac, and a
\* third sharing it gives the ip the first two lack.
C6_Witness ==
    /\ Converted
    /\ \E i, j, k \in MappingPositions(Len(InputNodes)) :
          /\ i < j /\ j < k
          /\ Truthy(DeriveFor(InputNodes[i]))
          /\ DeriveFor(InputNodes[i]) = DeriveFor(InputNodes[j])
          /\ DeriveFor(InputNodes[i]) = DeriveFor(InputNodes[k])
          /\ Truthy(BmcVals(InputNodes[i])["bmc_mac"])
          /\ Truthy(BmcVals(InputNodes[j])["bmc_mac"])
          /\ BmcVals(InputNodes[i])["bmc_mac"] # BmcVals(InputNodes[j])["bmc_mac"]
          /\ ~Truthy(BmcVals(InputNodes[i])["bmc_ip"])
          /\ ~Truthy(BmcVals(InputNodes[j])["bmc_ip"])
          /\ Truthy(BmcVals(InputNodes[k])["bmc_ip"])

\* the aggregation key of a mapping entry that aggregates: it has an
\* identifier or some non-empty bmc_* field
Aggregates(node) == Truthy(DeriveFor(node)) \/ HasAnyBmcInfo(BmcVals(node))
NodeKey(node) == KeyOf(DeriveFor(node), BmcVals(node))

\* C7: a node for which no identifier is derived has no 'bmc' field in the
\* output, and the aggregated records are those of the nodes that have an
\* identifier or a non-empty bmc_* field: a node with neither adds none.
C7_NoIdentifierNoBmc ==
    /\ (pc = "loop" /\ idx >= 1 /\ IsDict(InputNodes[idx]) /\ ~Truthy(bmc_xname)) =>
          node_records[Len(node_records)].bmc = Absent
    /\ pc = "loop" =>
          \A i \in 1..Len(bmcs_by_key) :
              \E j \in MappingPositions(idx) :
                  Aggregates(InputNodes[j]) /\ NodeKey(InputNodes[j]) = bmcs_by_key[i].key

\* the sort tuple of a record of the output without an identifier
TripletOf(rec) == <<OrEmpty(rec.ip), OrEmpty(rec.mac), OrEmpty(rec.fqdn)>>

\* C9: in the output 'bmcs' the records with an identifier come first, in
\* ascending order of the identifier, and the records without one follow
\* in ascending order of (ip, mac, fqdn), a missing value counting as "".
C9_BmcsSorted ==
    Converted =>
        \A i, j \in 1..Len(converted.bmcs) :
            i < j =>
                LET a == converted.bmcs[i]
                    b == converted.bmcs[j]
                IN /\ a.xname = Absent => b.xname = Absent
                   /\ (a.xname # Absent /\ b.xname # Absent) => StrLess(a.xname.s, b.xname.s)
                   /\ (a.xname = Absent /\ b.xname = Absent) =>
                         ~TupleLess(TripletOf(b), TripletOf(a))

\* C9 witness: the output has a record with an identifier and two different
\* records without one, and the nodes introduced a record without an
\* identifier first and the two without one in descending order.
C9_Witness ==
    /\ Converted
    /\ Len(converted.bmcs) = 3
    /\ converted.bmcs[1].xname # Absent
    /\ converted.bmcs[2].xname = Absent
    /\ converted.bmcs[3].xname = Absent
    /\ converted.bmcs[2] # converted.bmcs[3]
    /\ bmcs_by_key[1].rec.xname = Absent
    /\ OutRec(bmcs_by_key[1].rec) = converted.bmcs[3]

\* C10: the output nodes are the mapping entries of the input, one each and
\* in the same order; an entry that is not a mapping adds no node and no
\* BMC record.  After every step of the loop, for the entries seen so far.
C10_NodesInOrder ==
    /\ pc = "loop" =>
          /\ Len(node_records) = Cardinality(MappingPositions(idx))
          /\ \A k \in 1..Len(node_records) :
                /\ node_records[k].xname = InputNodes[KthMapping(k)].xname
                /\ node_records[k].extra = InputNodes[KthMapping(k)].extra
          /\ \A i \in 1..Len(bmcs_by_key) :
                \E j \in MappingPositions(idx) :
                    NodeKey(InputNodes[j]) = bmcs_by_key[i].key
    /\ Converted =>
          /\ Len(converted.nodes) = Cardinality(MappingPositions(Len(InputNodes)))
          /\ \A k \in 1..Len(converted.nodes) :
                /\ converted.nodes[k].xname = InputNodes[KthMapping(k)].xname
                /\ converted.nodes[k].extra = InputNodes[KthMapping(k)].extra

\* C10 witness: convert has returned for an input with an entry that is not
\* a mapping between two mappings of different xname.
C10_Witness ==
    /\ Converted
    /\ Len(InputNodes) = 3
    /\ IsDict(InputNodes[1]) /\ ~IsDict(InputNodes[2]) /\ IsDict(InputNodes[3])
    /\ InputNodes[1].xname # InputNodes[3].xname
    /\ Len(converted.nodes) = 2

\* C8: every finished run has written the complete document, or has
\* written nothing to standard output and a diagnostic to standard error;
\* no run is left with part of a document written.
C8_AllOrNothing ==
    /\ stdout.started => (pc = "exit" /\ stdout.complete)
    /\ (pc = "exit" /\ ~stdout.started) => stderr # <<>>

====
